---- MODULE Spec2Model ----
(***************************************************************************)
(* Model of services/netbox.py: the payload dataclasses, their dict()      *)
(* conversion, the single-dispatch create/update layer over the Netbox     *)
(* endpoints, and create_available_prefix / create_available_ip; and of    *)
(* the Create Node workflow of workflows/node/create_node.py.              *)
(*                                                                         *)
(* Encoding of Python values:                                              *)
(*   - a dataclass instance is a record with a "cls" field naming its      *)
(*     class plus one field per dataclass field;                           *)
(*   - a dict is a record without a "cls" field;                           *)
(*   - a list is a sequence;                                               *)
(*   - None is the integer None (outside the id range) where the field is  *)
(*     Optional[int], and the string NoneStr where it is Optional[str].    *)
(*                                                                         *)
(* The Netbox server and the pynetbox client are the environment: every    *)
(* external call (endpoint.create, endpoint.get, object.update,            *)
(* object.save) has an outcome chosen by the environment, either a return  *)
(* or a raised pynetbox RequestError.  Each external call is one step: an  *)
(* invocation that makes several of them waits for each, and the calls of  *)
(* another caller's invocation can fall in between.                        *)
(***************************************************************************)
EXTENDS Integers, Sequences, FiniteSets, TLC

VARIABLES
    store,      \* the external system: endpoint name -> (id -> object fields)
    inv,        \* per caller, the invocation it made last: [fn, payload]
    calls,      \* per caller, the external calls that invocation has issued
    result,     \* per caller, how that invocation ended, or that it is pending
    wf          \* the Create Node workflow process, when one is running

vars == <<store, inv, calls, result, wf>>

(***************************************************************************)
(* Bounds of the model.                                                    *)
(***************************************************************************)
\* Cable ids the external system can hand out are 1..MaxId.
MaxId == 3

(***************************************************************************)
(* Payload model.                                                          *)
(***************************************************************************)
None == -1
NoneStr == "None"

\* Default of CableTerminationPayload.object_type and
\* AvailableIpPayload.assigned_object_type.
DcimInterface == "dcim.interface"

\* Dataclass field names per class, in declaration order (inherited first).
Fields(cls) ==
    CASE cls = "NetboxPayload" -> <<"id">>
      [] cls = "DevicePayload" ->
            <<"id", "site", "device_type", "device_role", "name", "status",
              "primary_ip4", "primary_ip6">>
      [] cls = "CableTerminationPayload" -> <<"object_id", "object_type">>
      [] cls = "CablePayload" ->
            <<"id", "status", "description", "a_terminations", "b_terminations">>
      [] cls = "AvailablePrefixPayload" ->
            <<"prefix_length", "description", "is_pool">>
      [] cls = "AvailableIpPayload" ->
            <<"description", "assigned_object_id", "assigned_object_type", "status">>

FieldSet(cls) == {Fields(cls)[i] : i \in DOMAIN Fields(cls)}

\* The fields typed List[CableTerminationPayload].
DataclassListFields(cls) ==
    IF cls = "CablePayload" THEN {"a_terminations", "b_terminations"} ELSE {}

\* Constructors (the generated dataclass __init__, defaults included).
NetboxPayload(id) == [cls |-> "NetboxPayload", id |-> id]

DevicePayload(id, site, device_type, device_role, name, status, ip4, ip6) ==
    [cls |-> "DevicePayload", id |-> id, site |-> site,
     device_type |-> device_type, device_role |-> device_role,
     name |-> name, status |-> status,
     primary_ip4 |-> ip4, primary_ip6 |-> ip6]

CableTerminationPayload(object_id) ==
    [cls |-> "CableTerminationPayload", object_id |-> object_id,
     object_type |-> DcimInterface]

CablePayload(id, status, description, a_terminations, b_terminations) ==
    [cls |-> "CablePayload", id |-> id, status |-> status,
     description |-> description,
     a_terminations |-> a_terminations, b_terminations |-> b_terminations]

AvailablePrefixPayload(prefix_length, description) ==
    [cls |-> "AvailablePrefixPayload", prefix_length |-> prefix_length,
     description |-> description, is_pool |-> FALSE]

AvailableIpPayload(description, assigned_object_id) ==
    [cls |-> "AvailableIpPayload", description |-> description,
     assigned_object_id |-> assigned_object_id,
     assigned_object_type |-> DcimInterface, status |-> "active"]

\* dataclasses.asdict on an instance whose fields are all scalars.
asdict_flat(obj) == [f \in FieldSet(obj.cls) |-> obj[f]]

\* Variant of asdict that copies the fields without converting nested
\* dataclass instances.
asdict_shallow(obj) == [f \in FieldSet(obj.cls) |-> obj[f]]

\* dataclasses.asdict: every field of the instance, by name; a list of
\* dataclass instances becomes a list of dicts (the conversion recurses).
asdict(obj) ==
    [f \in FieldSet(obj.cls) |->
        IF f \in DataclassListFields(obj.cls)
        THEN [i \in DOMAIN obj[f] |-> asdict_flat(obj[f][i])]
        ELSE obj[f]]

\* Variant of dict that leaves the id out of the mapping.
dict_without_id(payload) ==
    [f \in DOMAIN asdict(payload) \ {"id"} |-> asdict(payload)[f]]

\* NetboxPayload.dict
dict(payload) == asdict(payload)

\* The mapping each payload is sent as: payload.dict() for the NetboxPayload
\* classes, asdict(payload) for the available-prefix and available-ip ones.
to_mapping(payload) ==
    IF payload.cls \in {"NetboxPayload", "DevicePayload", "CablePayload"}
    THEN dict(payload)
    ELSE asdict(payload)

\* cls(**mapping): the generated __init__ stores each argument as given.
Reconstruct(cls, mapping) ==
    [f \in {"cls"} \cup FieldSet(cls) |-> IF f = "cls" THEN cls ELSE mapping[f]]

(***************************************************************************)
(* Inputs: the payloads a caller hands to create and update.               *)
(***************************************************************************)
\* Payloads handed to create: one of each class without a create route, and
\* a cable with terminations.
CreatePayloads ==
    {NetboxPayload(5),
     DevicePayload(5, 1, 2, 3, "rtr1", "active", None, None),
     CablePayload(None, "connected", NoneStr,
                  <<CableTerminationPayload(10)>>,
                  <<CableTerminationPayload(20)>>),
     AvailablePrefixPayload(24, "uplink"),
     AvailableIpPayload("loopback", 7)}

\* Payloads handed to update: one of each class without an update route, two
\* for the device the external system holds, one for a device it does not
\* hold, and one for the cable it holds.
UpdatePayloads ==
    {NetboxPayload(5),
     DevicePayload(5, 1, 2, 3, "rtr1", "active", None, None),
     DevicePayload(5, 1, 2, 3, "rtr1", "active", 4, None),
     DevicePayload(6, 1, 2, 3, "rtr1", "active", None, None),
     CablePayload(1, "connected", NoneStr, <<>>, <<>>),
     AvailablePrefixPayload(24, "uplink"),
     AvailableIpPayload("loopback", 7)}

\* Messages a pynetbox RequestError can carry (exc.message).
Messages == {"status: not a valid choice", "internal server error"}

\* The callers of the layer. The module-level netbox handle is shared, so
\* their invocations address the same external system and may overlap.
Callers == {"c1", "c2"}

(***************************************************************************)
(* The environment: outcomes of the external calls.                        *)
(***************************************************************************)
Raises == {[raises |-> TRUE, message |-> m] : m \in Messages}

\* A call that fails on the server's side.
ServerError == {[raises |-> TRUE, message |-> "internal server error"]}

Returns(values) == {[raises |-> FALSE, value |-> v] : v \in values}

\* endpoint.create either raises RequestError or returns the created object,
\* to which the external system has assigned an id not yet in use.
CreateEnv(st, endpoint) ==
    Raises \cup Returns((1..MaxId) \ DOMAIN st[endpoint])

\* The outcomes of the next call of an update that has issued the calls cs:
\* endpoint.get and object.update raise or return (what get returns is
\* decided by the store), object.save raises or returns a bool.
UpdateEnv(cs) ==
    IF Len(cs) = 2 THEN ServerError \cup Returns(BOOLEAN)
    ELSE ServerError \cup Returns({TRUE})

(***************************************************************************)
(* Results of an invocation.                                               *)
(***************************************************************************)
Return(value) == [kind |-> "return", value |-> value]

\* The invocation waits for its next external call.
Pending == [kind |-> "pending"]

\* pynetbox RequestError propagating out of the layer unchanged.
RequestError(message) ==
    [kind |-> "raise", exc |-> "RequestError", message |-> message]

\* utils.singledispatch.single_dispatch_base: raises TypeError; the function
\* and the type of the payload it was called for are part of the message.
single_dispatch_base(func, payload) ==
    [kind |-> "raise", exc |-> "TypeError", func |-> func,
     payload_type |-> payload.cls]

Outcome(res, cs, st) == [result |-> res, calls |-> cs, store |-> st]

(***************************************************************************)
(* _create_object and _update_object.                                      *)
(***************************************************************************)
\* The object the external system holds after a successful create: the
\* submitted body under the id the system assigned.
Created(body, id) ==
    [f \in DOMAIN body \cup {"id"} |-> IF f = "id" THEN id ELSE body[f]]

\* Variant of InvalidNetboxPayload whose text names the exception class
\* instead of the message it carries.
InvalidNetboxPayload_class(message) ==
    [kind |-> "raise", exc |-> "ValueError",
     text |-> "invalid NetboxPayload: ", message |-> "RequestError"]

\* raise ValueError(f"invalid NetboxPayload: {exc.message}") from exc
InvalidNetboxPayload(message) ==
    [kind |-> "raise", exc |-> "ValueError",
     text |-> "invalid NetboxPayload: ", message |-> message]

\* Variant of _create_object that submits the body a second time when the
\* first submission is rejected.
_create_object_retry(payload, endpoint, st, env) ==
    LET call == [endpoint |-> endpoint, method |-> "create",
                 body |-> dict(payload), outcome |-> env]
    IN  IF env.raises
        THEN Outcome(InvalidNetboxPayload(env.message), <<call, call>>, st)
        ELSE LET object == Created(call.body, env.value)
             IN  Outcome(Return(object.id), <<call>>,
                         [st EXCEPT ![endpoint] = (object.id :> object) @@ @])

\* Variant of _create_object that returns the id the payload carries.
_create_object_payload_id(payload, endpoint, st, env) ==
    LET call == [endpoint |-> endpoint, method |-> "create",
                 body |-> dict(payload), outcome |-> env]
    IN  IF env.raises
        THEN Outcome(InvalidNetboxPayload(env.message), <<call>>, st)
        ELSE LET object == Created(call.body, env.value)
             IN  Outcome(Return(payload.id), <<call>>,
                         [st EXCEPT ![endpoint] = (object.id :> object) @@ @])

\* _create_object makes one external call, endpoint.create.
_create_object(payload, endpoint, st, env) ==
    LET call == [endpoint |-> endpoint, method |-> "create",
                 body |-> dict(payload), outcome |-> env]
    IN  IF env.raises
        THEN Outcome(InvalidNetboxPayload(env.message), <<call>>, st)
        ELSE LET object == Created(call.body, env.value)
             IN  Outcome(Return(object.id), <<call>>,
                         [st EXCEPT ![endpoint] = (object.id :> object) @@ @])

\* raise ValueError(f"Netbox object with id {payload.id} on netbox
\* {endpoint.name} endpoint not found")
NotFound(id, endpoint) ==
    [kind |-> "raise", exc |-> "ValueError", text |-> "not found",
     id |-> id, endpoint |-> endpoint]

\* Record.update(data): every key of data is assigned on the object.
Updated(object, data) ==
    [f \in DOMAIN object \cup DOMAIN data |->
        IF f \in DOMAIN data THEN data[f] ELSE object[f]]

\* The store after object.update(data) on the object fetched under id.
\* pynetbox's Record.update assigns the fields and sends them to the server.
Patched(st, endpoint, id, data) ==
    [st EXCEPT ![endpoint][id] = Updated(@, data)]

\* Variant of _update_object that creates the object when the id is absent.
_update_object_upsert(payload, endpoint, st, cs, env) ==
    LET id     == payload.id
        found  == id \in DOMAIN st[endpoint]
        get    == [endpoint |-> endpoint, method |-> "get", key |-> id,
                   outcome |-> IF env.raises THEN env
                               ELSE [raises |-> FALSE, value |-> found]]
        make   == [endpoint |-> endpoint, method |-> "create",
                   body |-> dict(payload),
                   outcome |-> [raises |-> FALSE, value |-> id]]
        update == [endpoint |-> endpoint, method |-> "update", key |-> id,
                   data |-> dict(payload), outcome |-> env]
        save   == [endpoint |-> endpoint, method |-> "save", key |-> id,
                   outcome |-> env]
    IN  CASE Len(cs) = 0 ->
               IF env.raises
               THEN Outcome(RequestError(env.message), <<get>>, st)
               ELSE IF ~found
               THEN Outcome(Return(TRUE), <<get, make>>,
                            [st EXCEPT ![endpoint] = (id :> make.body) @@ @])
               ELSE Outcome(Pending, <<get>>, st)
          [] Len(cs) = 1 ->
               IF env.raises
               THEN Outcome(RequestError(env.message), Append(cs, update), st)
               ELSE Outcome(Pending, Append(cs, update),
                            Patched(st, endpoint, id, update.data))
          [] Len(cs) = 2 ->
               IF env.raises
               THEN Outcome(RequestError(env.message), Append(cs, save), st)
               ELSE Outcome(Return(env.value), Append(cs, save), st)

\* Variant of _update_object that reports success whatever save returned.
_update_object_true(payload, endpoint, st, cs, env) ==
    LET id     == payload.id
        found  == id \in DOMAIN st[endpoint]
        get    == [endpoint |-> endpoint, method |-> "get", key |-> id,
                   outcome |-> IF env.raises THEN env
                               ELSE [raises |-> FALSE, value |-> found]]
        update == [endpoint |-> endpoint, method |-> "update", key |-> id,
                   data |-> dict(payload), outcome |-> env]
        save   == [endpoint |-> endpoint, method |-> "save", key |-> id,
                   outcome |-> env]
    IN  CASE Len(cs) = 0 ->
               IF env.raises
               THEN Outcome(RequestError(env.message), <<get>>, st)
               ELSE IF ~found
               THEN Outcome(NotFound(id, endpoint), <<get>>, st)
               ELSE Outcome(Pending, <<get>>, st)
          [] Len(cs) = 1 ->
               IF env.raises
               THEN Outcome(RequestError(env.message), Append(cs, update), st)
               ELSE Outcome(Pending, Append(cs, update),
                            Patched(st, endpoint, id, update.data))
          [] Len(cs) = 2 ->
               IF env.raises
               THEN Outcome(RequestError(env.message), Append(cs, save), st)
               ELSE Outcome(Return(TRUE), Append(cs, save), st)

\* _update_object makes up to three external calls, one after the other:
\* endpoint.get, object.update, object.save. Given the calls cs it has issued
\* so far, it makes the next one, on the store as it is at that moment, and
\* either ends or waits for the one after.
_update_object(payload, endpoint, st, cs, env) ==
    LET id     == payload.id
        found  == id \in DOMAIN st[endpoint]
        get    == [endpoint |-> endpoint, method |-> "get", key |-> id,
                   outcome |-> IF env.raises THEN env
                               ELSE [raises |-> FALSE, value |-> found]]
        update == [endpoint |-> endpoint, method |-> "update", key |-> id,
                   data |-> dict(payload), outcome |-> env]
        save   == [endpoint |-> endpoint, method |-> "save", key |-> id,
                   outcome |-> env]
    IN  CASE Len(cs) = 0 ->
               IF env.raises
               THEN Outcome(RequestError(env.message), <<get>>, st)
               ELSE IF ~found
               THEN Outcome(NotFound(id, endpoint), <<get>>, st)
               ELSE Outcome(Pending, <<get>>, st)
          [] Len(cs) = 1 ->
               IF env.raises
               THEN Outcome(RequestError(env.message), Append(cs, update), st)
               ELSE Outcome(Pending, Append(cs, update),
                            Patched(st, endpoint, id, update.data))
          [] Len(cs) = 2 ->
               IF env.raises
               THEN Outcome(RequestError(env.message), Append(cs, save), st)
               ELSE Outcome(Return(env.value), Append(cs, save), st)

(***************************************************************************)
(* create_available_prefix and create_available_ip.                        *)
(***************************************************************************)
\* Parent prefixes a caller names: one the external system holds, one it
\* does not.
ParentIds == {3, 99}

\* get_ip_prefix_by_id(id): netbox.ipam.prefixes.get(id)
get_ip_prefix_by_id(id, st, env) ==
    [endpoint |-> "prefixes", method |-> "get", key |-> id,
     outcome |-> IF env.raises THEN env
                 ELSE [raises |-> FALSE, value |-> id \in DOMAIN st.prefixes]]

\* parent_prefix.<attribute> on the None that prefixes.get returned.
NoneTypeHasNoAttribute(attribute) ==
    [kind |-> "raise", exc |-> "AttributeError", attribute |-> attribute]

\* The body shared by create_available_prefix and create_available_ip: the
\* parent prefix is fetched, then asdict(payload) is submitted to the given
\* sub-resource of the parent. The object the external system creates lands
\* in the given collection and is returned as it is. Neither call is guarded:
\* a RequestError leaves the function unchanged.
create_available(resource, collection, parent_id, payload, st, cs, env) ==
    LET get    == get_ip_prefix_by_id(parent_id, st, env)
        make   == [endpoint |-> "prefixes", method |-> "create",
                   key |-> parent_id, resource |-> resource,
                   body |-> asdict(payload), outcome |-> env]
    IN  CASE Len(cs) = 0 ->
               IF env.raises
               THEN Outcome(RequestError(env.message), <<get>>, st)
               ELSE IF ~get.outcome.value
               THEN Outcome(NoneTypeHasNoAttribute(resource), <<get>>, st)
               ELSE Outcome(Pending, <<get>>, st)
          [] Len(cs) = 1 ->
               IF env.raises
               THEN Outcome(RequestError(env.message), Append(cs, make), st)
               ELSE LET object == Created(make.body, env.value)
                    IN  Outcome(Return(object), Append(cs, make),
                                [st EXCEPT ![collection] =
                                    (object.id :> object) @@ @])

create_available_prefix(parent_id, payload, st, cs, env) ==
    create_available("available_prefixes", "prefixes",
                     parent_id, payload, st, cs, env)

create_available_ip(parent_id, payload, st, cs, env) ==
    create_available("available_ips", "ip_addresses",
                     parent_id, payload, st, cs, env)

\* The outcomes of the next call of create_available_prefix or
\* create_available_ip: prefixes.get raises or returns, the create on the
\* sub-resource raises or returns the object under an id not yet in use.
AvailableEnv(st, collection, cs) ==
    IF Len(cs) = 0 THEN ServerError \cup Returns({TRUE})
    ELSE ServerError \cup Returns((1..MaxId) \ DOMAIN st[collection])

(***************************************************************************)
(* functools.singledispatch: create and update.                            *)
(***************************************************************************)
\* Method resolution order of the payload classes.
MRO(cls) ==
    IF cls \in {"DevicePayload", "CablePayload"}
    THEN <<cls, "NetboxPayload", "object">>
    ELSE <<cls, "object">>

\* Variant of create_registry that routes cables to the devices endpoint.
create_registry_devices == [CablePayload |-> "devices"]

\* @create.register / @update.register: class -> endpoint of the
\* implementation registered for it.
create_registry == [CablePayload |-> "cables"]

update_registry == [DevicePayload |-> "devices", CablePayload |-> "cables"]

\* singledispatch picks the implementation registered for the first class of
\* the argument's MRO that has one; "object" is the generic function itself.
dispatch(registry, cls) ==
    LET mro == MRO(cls)
        hit == {i \in DOMAIN mro : mro[i] \in DOMAIN registry \cup {"object"}}
    IN  mro[CHOOSE i \in hit : \A j \in hit : i <= j]

\* Variant of create whose generic function submits the payload to the
\* devices endpoint instead of refusing it.
create_default_devices(payload, st, env) ==
    LET impl == dispatch(create_registry, payload.cls)
    IN  IF impl = "object"
        THEN _create_object(payload, "devices", st, env)
        ELSE _create_object(payload, create_registry[impl], st, env)

create(payload, st, env) ==
    LET impl == dispatch(create_registry, payload.cls)
    IN  IF impl = "object"
        THEN Outcome(single_dispatch_base("create", payload), <<>>, st)
        ELSE _create_object(payload, create_registry[impl], st, env)

\* update, as far as its next external call (cs are the calls it has issued).
update(payload, st, cs, env) ==
    LET impl == dispatch(update_registry, payload.cls)
    IN  IF impl = "object"
        THEN Outcome(single_dispatch_base("update", payload), <<>>, st)
        ELSE _update_object(payload, update_registry[impl], st, cs, env)

(***************************************************************************)
(* The state machine: callers invoke the functions of the layer. The layer *)
(* is synchronous and keeps no state of its own; a caller waits for each   *)
(* external call of its invocation, and the other caller's calls can reach *)
(* the external system in between.                                         *)
(***************************************************************************)
\* Objects of the external system carry fields no payload has.
InitialDevice ==
    [serial |-> "SN5"] @@
    dict(DevicePayload(5, 1, 2, 3, "rtr1", "planned", None, None))

InitialCable ==
    [label |-> "patch-1"] @@
    dict(CablePayload(1, "planned", NoneStr, <<CableTerminationPayload(10)>>,
                      <<CableTerminationPayload(20)>>))

InitialPrefix == [id |-> 3, prefix |-> "10.0.0.0/16", is_pool |-> TRUE]

InitialIpAddress == [id |-> 1, address |-> "10.0.0.1/32", status |-> "active"]

\* No workflow process exists.
NoWorkflow == [process |-> "none"]

NoInvocation == [fn |-> "none"]

NoResult == [kind |-> "none"]

Init ==
    /\ store = [devices      |-> (5 :> InitialDevice),
                cables       |-> (1 :> InitialCable),
                prefixes     |-> (3 :> InitialPrefix),
                ip_addresses |-> (1 :> InitialIpAddress)]
    /\ inv = [c \in Callers |-> NoInvocation]
    /\ calls = [c \in Callers |-> <<>>]
    /\ result = [c \in Callers |-> NoResult]
    /\ wf = NoWorkflow

\* The caller is not inside an invocation.
Idle(c) == result[c] # Pending

\* The caller is inside an invocation of fn that has issued n calls.
Waiting(c, fn, n) ==
    /\ result[c] = Pending
    /\ inv[c].fn = fn
    /\ Len(calls[c]) = n

\* Caller c begins the invocation i, which gets as far as out.
Begin(c, i, out) ==
    /\ inv' = [inv EXCEPT ![c] = i]
    /\ calls' = [calls EXCEPT ![c] = out.calls]
    /\ result' = [result EXCEPT ![c] = out.result]
    /\ store' = out.store

\* The invocation of caller c gets as far as out.
Continue(c, out) ==
    /\ calls' = [calls EXCEPT ![c] = out.calls]
    /\ result' = [result EXCEPT ![c] = out.result]
    /\ store' = out.store
    /\ UNCHANGED inv

\* A caller invokes create(payload): the dispatch and, for a routed payload,
\* the one external call.
create_call(c) ==
    /\ Idle(c)
    /\ \E payload \in CreatePayloads :
          LET impl == dispatch(create_registry, payload.cls)
              envs == IF impl = "object" THEN Raises
                      ELSE CreateEnv(store, create_registry[impl])
          IN  \E env \in envs :
                  Begin(c, [fn |-> "create", payload |-> payload],
                        create(payload, store, env))

Create == \E c \in Callers : create_call(c) /\ UNCHANGED wf

\* A caller invokes update(payload), one of the given payloads: the dispatch
\* and, for a routed payload, endpoint.get.
\* payload.id is declared int (NetboxPayload.id); update is called with an id.
update_call(c, payloads) ==
    /\ Idle(c)
    /\ \E payload \in payloads, env \in UpdateEnv(<<>>) :
          /\ "id" \in DOMAIN payload => payload.id # None
          /\ Begin(c, [fn |-> "update", payload |-> payload],
                   update(payload, store, <<>>, env))

Update == \E c \in Callers : update_call(c, UpdatePayloads) /\ UNCHANGED wf

\* object.update(payload.dict()) of an update whose get found the object.
object_update(c) ==
    /\ Waiting(c, "update", 1)
    /\ \E env \in UpdateEnv(calls[c]) :
          Continue(c, update(inv[c].payload, store, calls[c], env))

ObjectUpdate == \E c \in Callers : object_update(c) /\ UNCHANGED wf

\* object.save() of an update whose object.update returned; update returns
\* what it returns.
object_save(c) ==
    /\ Waiting(c, "update", 2)
    /\ \E env \in UpdateEnv(calls[c]) :
          Continue(c, update(inv[c].payload, store, calls[c], env))

ObjectSave == \E c \in Callers : object_save(c) /\ UNCHANGED wf

\* A caller invokes create_available_prefix(parent_id, payload): the parent
\* prefix is fetched.
CreateAvailablePrefix ==
    \E c \in Callers, parent_id \in ParentIds,
       env \in AvailableEnv(store, "prefixes", <<>>) :
        LET payload == AvailablePrefixPayload(24, "uplink")
        IN  /\ Idle(c)
            /\ Begin(c, [fn |-> "create_available_prefix",
                         parent_id |-> parent_id, payload |-> payload],
                     create_available_prefix(parent_id, payload, store, <<>>, env))
            /\ UNCHANGED wf

\* parent_prefix.available_prefixes.create(asdict(payload))
AvailablePrefixesCreate ==
    \E c \in Callers :
        /\ Waiting(c, "create_available_prefix", 1)
        /\ \E env \in AvailableEnv(store, "prefixes", calls[c]) :
              Continue(c, create_available_prefix(inv[c].parent_id,
                              inv[c].payload, store, calls[c], env))
        /\ UNCHANGED wf

\* A caller invokes create_available_ip(parent_id, payload): the parent
\* prefix is fetched.
CreateAvailableIp ==
    \E c \in Callers, parent_id \in ParentIds,
       env \in AvailableEnv(store, "ip_addresses", <<>>) :
        LET payload == AvailableIpPayload("loopback", 7)
        IN  /\ Idle(c)
            /\ Begin(c, [fn |-> "create_available_ip",
                         parent_id |-> parent_id, payload |-> payload],
                     create_available_ip(parent_id, payload, store, <<>>, env))
            /\ UNCHANGED wf

\* parent_prefix.available_ips.create(asdict(payload))
AvailableIpsCreate ==
    \E c \in Callers :
        /\ Waiting(c, "create_available_ip", 1)
        /\ \E env \in AvailableEnv(store, "ip_addresses", calls[c]) :
              Continue(c, create_available_ip(inv[c].parent_id,
                              inv[c].payload, store, calls[c], env))
        /\ UNCHANGED wf

Next ==
    \/ Create
    \/ Update
    \/ ObjectUpdate
    \/ ObjectSave

Spec == Init /\ [][Next]_vars

\* The callers of create_available_prefix and create_available_ip. These
\* address the prefixes and ip_addresses collections only, create and update
\* the devices and cables collections only.
NextAvailable ==
    \/ CreateAvailablePrefix
    \/ AvailablePrefixesCreate
    \/ CreateAvailableIp
    \/ AvailableIpsCreate

SpecAvailable == Init /\ [][NextAvailable]_vars

(***************************************************************************)
(* The conversion on its own: a payload is constructed, converted to its   *)
(* mapping, and a payload of the same class is constructed from the        *)
(* mapping.                                                                *)
(***************************************************************************)
Terminations(ids) ==
    {<<>>} \cup {<<CableTerminationPayload(i)>> : i \in ids}
           \cup {<<CableTerminationPayload(i), CableTerminationPayload(j)>> :
                    i \in ids, j \in ids}

ConvertedPayloads ==
    {NetboxPayload(5)}
    \cup {DevicePayload(id, 1, 2, 3, name, status, ip4, ip6) :
            id \in {5, 6}, name \in {"rtr1", NoneStr},
            status \in {"active", "planned", NoneStr},
            ip4 \in {None, 4}, ip6 \in {None, 6}}
    \cup {CablePayload(id, "connected", description, a, b) :
            id \in {None, 1}, description \in {NoneStr, "patch"},
            a \in Terminations({10, 11}), b \in Terminations({20})}
    \cup {AvailablePrefixPayload(length, "uplink") : length \in {24, 31}}
    \cup {AvailableIpPayload("loopback", id) : id \in {7, 8}}

\* One of the callers has constructed a payload.
InitConvert ==
    /\ store = [devices      |-> (5 :> InitialDevice),
                cables       |-> (1 :> InitialCable),
                prefixes     |-> (3 :> InitialPrefix),
                ip_addresses |-> (1 :> InitialIpAddress)]
    /\ \E c \in Callers, p \in ConvertedPayloads :
          inv = [d \in Callers |->
                    IF d = c THEN [fn |-> "construct", payload |-> p]
                    ELSE NoInvocation]
    /\ calls = [c \in Callers |-> <<>>]
    /\ result = [c \in Callers |-> NoResult]
    /\ wf = NoWorkflow

ToMapping ==
    \E c \in Callers :
        /\ inv[c].fn = "construct"
        /\ inv' = [inv EXCEPT ![c].fn = "to_mapping"]
        /\ result' = [result EXCEPT ![c] = Return(to_mapping(inv[c].payload))]
        /\ calls' = [calls EXCEPT ![c] =
                        <<[method |-> "to_mapping", outcome |-> result'[c]]>>]
        /\ UNCHANGED <<store, wf>>

FromMapping ==
    \E c \in Callers :
        /\ inv[c].fn = "to_mapping"
        /\ inv' = [inv EXCEPT ![c].fn = "reconstruct"]
        /\ result' = [result EXCEPT ![c] =
                         Return(Reconstruct(inv[c].payload.cls, result[c].value))]
        /\ UNCHANGED <<store, calls, wf>>

NextConvert == ToMapping \/ FromMapping

SpecConvert == InitConvert /\ [][NextConvert]_vars

(***************************************************************************)
(* The Create Node workflow (workflows/node/create_node.py, composed by    *)
(* workflows/shared.py).  The orchestrator framework is the environment:   *)
(* it runs the initial form generator and then the steps of the step list  *)
(* one after the other, a step that raises leaves the process failed at    *)
(* that step until it is retried, and an input step suspends the process   *)
(* until its form is submitted.  The workflow is one caller of the Netbox  *)
(* layer; the other caller updates the same device while it runs.          *)
(***************************************************************************)
Step(name) == [name |-> name]

\* Steps of the framework.
begin == <<>>

init == Step("init")

done == Step("done")

resync == Step("resync")

set_status(status) == [name |-> "set_status", status |-> status]

store_process_subscription(target) ==
    [name |-> "store_process_subscription", target |-> target]

\* Variant of create_node that updates Netbox before the config is shown.
create_node_update_first ==
    begin
    \o <<Step("construct_node_model")>>
    \o <<store_process_subscription("CREATE")>>
    \o <<Step("fetch_ip_address_information")>>
    \o <<set_status("PROVISIONING")>>
    \o <<Step("update_node_in_netbox")>>
    \o <<Step("provide_config_to_user")>>
    \o <<Step("set_node_to_active")>>

\* The step list create_node returns; >> appends a step.
create_node ==
    begin
    \o <<Step("construct_node_model")>>
    \o <<store_process_subscription("CREATE")>>
    \o <<Step("fetch_ip_address_information")>>
    \o <<set_status("PROVISIONING")>>
    \o <<Step("provide_config_to_user")>>
    \o <<Step("set_node_to_active")>>
    \o <<Step("update_node_in_netbox")>>

\* create_workflow(...)(f): init >> f() >> set_status(status) >> resync >> done
create_workflow(f, status) ==
    <<init>> \o f \o <<set_status(status)>> \o <<resync>> \o <<done>>

\* @create_workflow("Create Node", ..., status=SubscriptionLifecycle.ACTIVE)
CreateNodeWorkflow == create_workflow(create_node, "ACTIVE")

\* The caller the workflow process is, and the one that is not.
WorkflowCaller == "c1"

OtherCaller == "c2"

\* The devices of the external system when the workflow starts: planned
\* ones, of which one has no primary addresses yet, and an active one.
NetboxDevice(id, name, status, ip4, ip6) ==
    [serial |-> "SN"] @@ dict(DevicePayload(id, 1, 2, 3, name, status, ip4, ip6))

WorkflowDevices ==
    (5 :> NetboxDevice(5, "rtr1", "planned", 4, 6))
    @@ (6 :> NetboxDevice(6, "rtr2", "planned", None, None))
    @@ (7 :> NetboxDevice(7, "rtr3", "active", 8, 9))
    @@ (8 :> NetboxDevice(8, "rtr4", "planned", 10, 11))
    @@ (9 :> NetboxDevice(9, "rtr5", "planned", 12, 13))
    @@ (10 :> NetboxDevice(10, "rtr6", "planned", 14, 15))

\* What the other caller updates while the workflow runs: device 5 is
\* renamed and made active.
OtherPayloads ==
    {DevicePayload(5, 1, 2, 3, "rtr1-renamed", "active", 4, 6)}

\* get_devices(status): the devices with the given status, or every device
\* when the status is None or empty (if status: ... else: devices.all()).
get_devices(st, status) ==
    IF status \in {NoneStr, ""}
    THEN {st.devices[id] : id \in DOMAIN st.devices}
    ELSE {st.devices[id] :
             id \in {i \in DOMAIN st.devices : st.devices[i].status = status}}

\* The process before the initial form generator has run.
NewProcess ==
    [process      |-> "new",
     devices      |-> {},
     pc           |-> 1,
     executed     |-> <<>>,
     form         |-> [device_id |-> None],
     subscription |-> [status |-> "none"],
     lifecycle    |-> <<>>,
     submitted    |-> "none",
     refused      |-> FALSE,
     user_input   |-> [confirm_config_put_on_routers |-> "none"],
     calling      |-> FALSE,
     netbox_updated |-> "none"]

InitWorkflow ==
    /\ store = [devices      |-> WorkflowDevices,
                cables       |-> (1 :> InitialCable),
                prefixes     |-> (3 :> InitialPrefix),
                ip_addresses |-> (1 :> InitialIpAddress)]
    /\ inv = [c \in Callers |-> NoInvocation]
    /\ calls = [c \in Callers |-> <<>>]
    /\ result = [c \in Callers |-> NoResult]
    /\ wf = NewProcess

NetboxUntouched == UNCHANGED <<store, inv, calls, result>>

\* initial_input_form_generator, up to its yield: the planned devices are
\* fetched and the form offering their names is shown.
initial_input_form_generator ==
    /\ wf.process = "new"
    /\ wf' = [wf EXCEPT !.process = "form",
                        !.devices = get_devices(store, "planned")]
    /\ NetboxUntouched

\* The form a choice of device yields: id, name and status of the first
\* device of the fetched list that has the chosen name.
InitialForms(devices) ==
    {[device_id |-> d.id, device_name |-> d.name, device_status |-> d.status] :
        d \in devices}

\* The user submits the initial form: initial_input_form_generator resumes
\* and returns the data of the chosen device as it was fetched before the
\* form was shown; the framework starts the process with it.
SubmitInitialForm ==
    /\ wf.process = "form"
    /\ \E form \in InitialForms(wf.devices) :
          wf' = [wf EXCEPT !.process = "running", !.form = form]
    /\ NetboxUntouched

\* The step the process is about to run.
Ready(name) ==
    /\ wf.process = "running"
    /\ wf.pc <= Len(CreateNodeWorkflow)
    /\ CreateNodeWorkflow[wf.pc].name = name

\* The process after its current step has completed with the given changes.
Completed(w) ==
    [w EXCEPT !.executed = Append(@, CreateNodeWorkflow[wf.pc]), !.pc = @ + 1]

\* The process after its current step has raised.
Failed(w) == [w EXCEPT !.process = "failed"]

step_init ==
    /\ Ready("init")
    /\ wf' = Completed(wf)
    /\ NetboxUntouched

\* construct_node_model: the subscription is made in the INITIAL lifecycle
\* state and its node block filled from the form.
construct_node_model ==
    /\ Ready("construct_node_model")
    /\ wf' = Completed([wf EXCEPT
              !.subscription =
                  [status |-> "INITIAL",
                   node |-> [node_id |-> wf.form.device_id,
                             node_name |-> wf.form.device_name,
                             node_status |-> wf.form.device_status,
                             ipv4_loopback |-> None,
                             ipv6_loopback |-> None]],
              !.lifecycle = Append(@, "INITIAL")])
    /\ NetboxUntouched

step_store_process_subscription ==
    /\ Ready("store_process_subscription")
    /\ wf' = Completed(wf)
    /\ NetboxUntouched

\* get_device(name)
get_device(st, name) ==
    {st.devices[id] : id \in {i \in DOMAIN st.devices : st.devices[i].name = name}}

\* fetch_ip_address_information: raises when the lookup raises, finds no
\* device, or the device has no primary address; otherwise the loopbacks of
\* the node block are set from the device's primary addresses.
fetch_ip_address_information ==
    /\ Ready("fetch_ip_address_information")
    /\ \E env \in ServerError \cup Returns({"device"}) :
          LET found == get_device(store, wf.subscription.node.node_name)
              device == CHOOSE d \in found : TRUE
          IN  IF env.raises \/ found = {}
              THEN wf' = Failed(wf)
              ELSE IF device.primary_ip4 = None \/ device.primary_ip6 = None
              THEN wf' = Failed(wf)
              ELSE wf' = Completed([wf EXCEPT
                        !.subscription.node.ipv4_loopback = device.primary_ip4,
                        !.subscription.node.ipv6_loopback = device.primary_ip6])
    /\ NetboxUntouched

\* set_status(status): the subscription moves to the given lifecycle state.
step_set_status ==
    /\ Ready("set_status")
    /\ LET status == CreateNodeWorkflow[wf.pc].status
       IN  wf' = Completed([wf EXCEPT !.subscription.status = status,
                                      !.lifecycle = Append(@, status)])
    /\ NetboxUntouched

\* provide_config_to_user, up to its yield: the form with the config is shown
\* and the process waits for it.
provide_config_to_user ==
    /\ Ready("provide_config_to_user")
    /\ wf' = [wf EXCEPT !.process = "suspended"]
    /\ NetboxUntouched

\* router_config: the config text made of the node's name and loopbacks.
router_config(node) ==
    [hostname |-> node.node_name,
     ipv4     |-> node.ipv4_loopback,
     ipv6     |-> node.ipv6_loopback]

\* orchestrator.forms.validators.Accept: the values an Accept field can be
\* given, and its validation, which passes for ACCEPTED only.
AcceptValues == {"ACCEPTED", "INCOMPLETE"}

Accept(value) == value = "ACCEPTED"

\* ConfigResults(FormPage): the submitted data is a valid ConfigResults when
\* its Accept field validates; node_config is read-only.
ConfigResults(data) == Accept(data.confirm_config_put_on_routers)

\* The operator submits the config form with the given value of
\* confirm_config_put_on_routers. The framework validates the data as a
\* ConfigResults: data that does not validate is refused and the process
\* keeps waiting; with valid data provide_config_to_user resumes and returns
\* form_data.dict().
SubmitConfigForm ==
    /\ wf.process = "suspended"
    /\ \E value \in AcceptValues :
          LET data == [node_config |-> router_config(wf.subscription.node),
                       confirm_config_put_on_routers |-> value]
          IN  wf' = IF ConfigResults(data)
                    THEN Completed([wf EXCEPT !.process = "running",
                                              !.submitted = value,
                                              !.user_input = data])
                    ELSE [wf EXCEPT !.submitted = value, !.refused = TRUE]
    /\ NetboxUntouched

\* set_node_to_active returns the subscription as it got it.
set_node_to_active ==
    /\ Ready("set_node_to_active")
    /\ wf' = Completed(wf)
    /\ NetboxUntouched

\* products.services.netbox.netbox.build_payload for a node block: the
\* device payload of the node.
build_payload(node) ==
    DevicePayload(node.node_id, 1, 2, 3, node.node_name, node.node_status,
                  node.ipv4_loopback, node.ipv6_loopback)

\* The process once netbox.update, called by update_node_in_netbox, has got
\* as far as res: the step waits while update waits for its next external
\* call, raises when update raises and otherwise keeps what update returned.
AfterUpdate(res) ==
    IF res = Pending THEN [wf EXCEPT !.calling = TRUE]
    ELSE IF res.kind = "raise" THEN Failed([wf EXCEPT !.calling = FALSE])
    ELSE Completed([wf EXCEPT !.calling = FALSE, !.netbox_updated = res])

\* update_node_in_netbox: netbox.update(build_payload(...)), as far as the
\* first external call of update.
update_node_in_netbox ==
    /\ Ready("update_node_in_netbox")
    /\ ~wf.calling
    /\ update_call(WorkflowCaller, {build_payload(wf.subscription.node)})
    /\ wf' = AfterUpdate(result'[WorkflowCaller])

\* The next external call of the netbox.update that update_node_in_netbox
\* waits for.
update_node_in_netbox_continues ==
    /\ wf.process = "running" /\ wf.calling
    /\ object_update(WorkflowCaller) \/ object_save(WorkflowCaller)
    /\ wf' = AfterUpdate(result'[WorkflowCaller])

\* The other caller's update of the device, one external call at a time.
OtherUpdate ==
    /\ \/ update_call(OtherCaller, OtherPayloads)
       \/ object_update(OtherCaller)
       \/ object_save(OtherCaller)
    /\ UNCHANGED wf

step_resync ==
    /\ Ready("resync")
    /\ wf' = Completed(wf)
    /\ NetboxUntouched

step_done ==
    /\ Ready("done")
    /\ wf' = [Completed(wf) EXCEPT !.process = "completed"]
    /\ NetboxUntouched

\* A failed process is retried: the step that raised runs again.
Retry ==
    /\ wf.process = "failed"
    /\ wf' = [wf EXCEPT !.process = "running"]
    /\ NetboxUntouched

NextWorkflow ==
    \/ initial_input_form_generator
    \/ SubmitInitialForm
    \/ step_init
    \/ construct_node_model
    \/ step_store_process_subscription
    \/ fetch_ip_address_information
    \/ step_set_status
    \/ provide_config_to_user
    \/ SubmitConfigForm
    \/ set_node_to_active
    \/ update_node_in_netbox
    \/ update_node_in_netbox_continues
    \/ OtherUpdate
    \/ step_resync
    \/ step_done
    \/ Retry

SpecWorkflow == InitWorkflow /\ [][NextWorkflow]_vars

(***************************************************************************)
(* Vocabulary of the properties.  A property of an invocation is stated    *)
(* for every caller; what an invocation does to the external system is     *)
(* stated of its steps, since the other caller's calls fall in between.    *)
(***************************************************************************)
\* The implementation functools.singledispatch selects for the invocation.
Impl(c) ==
    IF inv[c].fn = "create" THEN dispatch(create_registry, inv[c].payload.cls)
    ELSE dispatch(update_registry, inv[c].payload.cls)

Invoked(c, fn) == inv[c].fn = fn

Routed(c) == inv[c].fn \in {"create", "update"} /\ Impl(c) # "object"

Unrouted(c) == inv[c].fn \in {"create", "update"} /\ Impl(c) = "object"

\* The collection each routed payload class denotes.
EndpointOf(cls) == IF cls = "DevicePayload" THEN "devices" ELSE "cables"

Methods(c) == {calls[c][i].method : i \in DOMAIN calls[c]}

Raised(c) == result[c].kind = "raise"

Returned(c) == result[c].kind = "return"

\* The three error kinds of the layer: a rejected create (ValidationError),
\* an update of an absent id (NotFoundError), an unrouted payload
\* (UnsupportedPayloadError).
IsValidationError(c) ==
    /\ Raised(c) /\ result[c].exc = "ValueError"
    /\ result[c].text = "invalid NetboxPayload: "

IsNotFoundError(c) ==
    Raised(c) /\ result[c].exc = "ValueError" /\ result[c].text = "not found"

IsUnsupportedPayloadError(c) == Raised(c) /\ result[c].exc = "TypeError"

\* The update invocation is for an id the external system does not hold.
\* Nothing is ever deleted, so the id was absent all through the invocation.
UpdateOfAbsent(c) ==
    /\ Invoked(c, "update") /\ Routed(c)
    /\ inv[c].payload.id \notin DOMAIN store[EndpointOf(inv[c].payload.cls)]

\* The create invocation whose one call the external system rejected.
RejectedCreate(c) ==
    /\ Invoked(c, "create") /\ Routed(c)
    /\ calls[c][1].outcome.raises

\* A call of the invocation that modifies the external system went through.
ModifiedBy(c) ==
    \E i \in DOMAIN calls[c] :
        /\ calls[c][i].method \in {"create", "update"}
        /\ ~calls[c][i].outcome.raises

\* This step is a step of caller c.
Acts(c) ==
    inv'[c] # inv[c] \/ calls'[c] # calls[c] \/ result'[c] # result[c]

\* This step is the object.update call of caller c's update, and it returns.
ObjectUpdateReturns(c) ==
    /\ Invoked(c, "update") /\ result[c] = Pending /\ Len(calls[c]) = 1
    /\ Len(calls'[c]) = 2 /\ ~calls'[c][2].outcome.raises

\* This step changes the object id of the endpoint to hold the value of data
\* in every field of data and its former value in every other field, and
\* changes nothing else.
AppliesMapping(endpoint, id, data) ==
    /\ DOMAIN store' = DOMAIN store
    /\ \A e \in DOMAIN store :
          /\ DOMAIN store'[e] = DOMAIN store[e]
          /\ \A i \in DOMAIN store[e] :
                <<e, i>> # <<endpoint, id>> => store'[e][i] = store[e][i]
    /\ DOMAIN store'[endpoint][id] = DOMAIN store[endpoint][id]
    /\ \A f \in DOMAIN store[endpoint][id] :
          store'[endpoint][id][f] =
              IF f \in DOMAIN data THEN data[f] ELSE store[endpoint][id][f]

\* This step changes the external system only through a create or an
\* object.update call that went through.
ChangesOnlyByMutatingCall(c) ==
    store' # store =>
        LET last == calls'[c][Len(calls'[c])]
        IN  /\ calls'[c] # <<>>
            /\ last.method \in {"create", "update"}
            /\ ~last.outcome.raises

(***************************************************************************)
(* Properties.                                                             *)
(***************************************************************************)
\* C1: a create of a payload whose class has a registered create route issues
\* exactly one external call: create, on the endpoint of the payload's class,
\* with the payload's dict() as body, whether the call returns or is rejected.
C1_CreateIssuesOneCreateCall ==
    \A c \in Callers :
        (Invoked(c, "create") /\ Routed(c)) =>
            /\ Len(calls[c]) = 1
            /\ calls[c][1].method = "create"
            /\ calls[c][1].endpoint = EndpointOf(inv[c].payload.cls)
            /\ calls[c][1].body = dict(inv[c].payload)

C1_Witness ==
    \E c \in Callers :
        /\ Invoked(c, "create") /\ Routed(c)
        /\ Len(calls[c]) = 1 /\ calls[c][1].outcome.raises
        /\ Raised(c)

\* C2: create and update of a payload whose class has no registered route
\* fail with the TypeError of single_dispatch_base naming the payload's
\* class, and make no external call; the step that makes the invocation
\* leaves the external system as it is.
C2_UnroutedFailsWithoutCall ==
    /\ [](\A c \in Callers :
            Unrouted(c) =>
                /\ IsUnsupportedPayloadError(c)
                /\ result[c].payload_type = inv[c].payload.cls
                /\ result[c].func = inv[c].fn
                /\ calls[c] = <<>>)
    /\ [][\A c \in Callers :
            (Acts(c) /\ Unrouted(c)') => store' = store]_vars

C2_Witness ==
    \E c \in Callers :
        /\ Invoked(c, "create") /\ inv[c].payload.cls = "DevicePayload"
        /\ IsUnsupportedPayloadError(c) /\ calls[c] = <<>>

\* C3: an update whose id is absent from the external system issues only the
\* get, neither the object's update nor save, and ends in an error; when the
\* get answers, the error is the ValueError naming the id and the endpoint;
\* the invocation leaves the external system unchanged.
C3_UpdateOfAbsentIdFails ==
    /\ [](\A c \in Callers :
            UpdateOfAbsent(c) =>
                /\ Len(calls[c]) = 1 /\ calls[c][1].method = "get"
                /\ calls[c][1].key = inv[c].payload.id
                /\ Raised(c)
                /\ ~calls[c][1].outcome.raises =>
                      /\ IsNotFoundError(c)
                      /\ result[c].id = inv[c].payload.id
                      /\ result[c].endpoint = EndpointOf(inv[c].payload.cls))
    /\ [][\A c \in Callers :
            (/\ Acts(c)
             /\ Invoked(c, "update")' /\ Routed(c)'
             /\ inv'[c].payload.id
                    \notin DOMAIN store[EndpointOf(inv'[c].payload.cls)]) =>
                (store' = store /\ Raised(c)')]_vars

C3_Witness ==
    \E c \in Callers :
        /\ UpdateOfAbsent(c) /\ inv[c].payload.cls = "DevicePayload"
        /\ IsNotFoundError(c)
        /\ result[c].id = 6 /\ result[c].endpoint = "devices"

\* C4: an update whose id exists and that returns has made three calls, get,
\* the fetched object's update with dict(payload), and save, and returns what
\* save returned, true or false; the object's update, when it goes through,
\* leaves the object holding the mapping's value in every field of the
\* mapping and its former value in every other field, and the get and the
\* save change nothing.
C4_UpdateAppliesMappingReturnsSave ==
    /\ [](\A c \in Callers :
            (Invoked(c, "update") /\ Routed(c) /\ Returned(c)) =>
                LET endpoint == EndpointOf(inv[c].payload.cls)
                    id       == inv[c].payload.id
                IN  /\ Len(calls[c]) = 3
                    /\ calls[c][1].method = "get" /\ calls[c][1].key = id
                    /\ calls[c][2].method = "update" /\ calls[c][2].key = id
                    /\ calls[c][2].data = dict(inv[c].payload)
                    /\ calls[c][3].method = "save" /\ calls[c][3].key = id
                    /\ \A i \in 1..3 : calls[c][i].endpoint = endpoint
                    /\ result[c].value = calls[c][3].outcome.value)
    /\ [][\A c \in Callers :
            (Acts(c) /\ Invoked(c, "update")') =>
                IF ObjectUpdateReturns(c)
                THEN AppliesMapping(EndpointOf(inv[c].payload.cls),
                                    inv[c].payload.id, dict(inv[c].payload))
                ELSE store' = store]_vars

\* An update has returned false while the other caller's update of the same
\* device waits between its get and its object.update.
C4_Witness ==
    \E c \in Callers, d \in Callers :
        /\ c # d
        /\ Invoked(c, "update") /\ Routed(c) /\ Returned(c)
        /\ result[c].value = FALSE
        /\ store.devices[5].status = "active"
        /\ Invoked(d, "update") /\ result[d] = Pending /\ Len(calls[d]) = 1
        /\ inv[d].payload.id = 5 /\ inv[d].payload # inv[c].payload

\* The scenario of C5: update of the device payload id=5, site=1,
\* device_type=2, device_role=3, name="rtr1", status="active",
\* primary_ip4=None, primary_ip6=None, on the existing device 5, as far as
\* the object's update call.
C5_Scenario(c) ==
    /\ Invoked(c, "update")
    /\ inv[c].payload = DevicePayload(5, 1, 2, 3, "rtr1", "active", None, None)
    /\ Len(calls[c]) >= 2

\* C5 as stated: in the scenario the mapping passed to the object's update
\* has exactly 6 fields, none of them the id, and the value returned is the
\* result of save.
C5_MappingHasSixNonIdFields ==
    \A c \in Callers :
        C5_Scenario(c) =>
            /\ "id" \notin DOMAIN calls[c][2].data
            /\ Cardinality(DOMAIN calls[c][2].data) = 6
            /\ Returned(c) => result[c].value = calls[c][3].outcome.value

\* C5, amended: in the scenario the mapping passed to the object's update
\* has all 8 dataclass fields, the id (5) and the 7 others, None-valued ones
\* included, and the value returned is the result of save.
C5_MappingHasAllFields ==
    \A c \in Callers :
        C5_Scenario(c) =>
            /\ calls[c][2].method = "update"
            /\ calls[c][2].data =
                  [id |-> 5, site |-> 1, device_type |-> 2, device_role |-> 3,
                   name |-> "rtr1", status |-> "active",
                   primary_ip4 |-> None, primary_ip6 |-> None]
            /\ Cardinality(DOMAIN calls[c][2].data) = 8
            /\ Returned(c) => result[c].value = calls[c][3].outcome.value

C5_Witness ==
    \E c \in Callers :
        /\ C5_Scenario(c) /\ Returned(c)
        /\ calls[c][2].data.id = 5
        /\ result[c].value = calls[c][3].outcome.value

\* C6: when the external system rejects the body of a create call, the
\* create fails with the ValueError "invalid NetboxPayload: " followed by
\* the message of the rejection; nothing is returned, and the step creates
\* nothing.
C6_RejectedCreateRaisesWithMessage ==
    /\ [](\A c \in Callers :
            RejectedCreate(c) =>
                /\ IsValidationError(c)
                /\ result[c].message = calls[c][1].outcome.message
                /\ ~Returned(c))
    /\ [][\A c \in Callers :
            (Acts(c) /\ RejectedCreate(c)') => store' = store]_vars

C6_Witness ==
    \E c \in Callers :
        /\ RejectedCreate(c)
        /\ IsValidationError(c)
        /\ result[c].message = "status: not a valid choice"

\* C7: a create or update that ends in an error ends in one of the three
\* error kinds of the layer; no RequestError of the external system reaches
\* the caller.
C7_OnlyDomainErrorsEscape ==
    \A c \in Callers :
        (inv[c].fn \in {"create", "update"} /\ Raised(c)) =>
            \/ IsValidationError(c)
            \/ IsNotFoundError(c)
            \/ IsUnsupportedPayloadError(c)

\* C8: a create that returns has called create once, on the endpoint of the
\* payload's class, and returns the id of the object that call created: the
\* step adds, under an id the external system did not hold, the object made
\* of the payload's mapping and that id.
C8_CreateReturnsCreatedId ==
    /\ [](\A c \in Callers :
            (Invoked(c, "create") /\ Routed(c) /\ Returned(c)) =>
                LET endpoint == EndpointOf(inv[c].payload.cls)
                IN  /\ Len(calls[c]) = 1 /\ calls[c][1].method = "create"
                    /\ calls[c][1].endpoint = endpoint
                    /\ result[c].value = calls[c][1].outcome.value
                    /\ result[c].value \in DOMAIN store[endpoint]
                    /\ store[endpoint][result[c].value].id = result[c].value)
    /\ [][\A c \in Callers :
            (Acts(c) /\ (Invoked(c, "create") /\ Routed(c) /\ Returned(c))') =>
                LET endpoint == EndpointOf(inv'[c].payload.cls)
                    id       == result'[c].value
                IN  /\ id \notin DOMAIN store[endpoint]
                    /\ store' = [store EXCEPT ![endpoint] =
                                    (id :> Created(dict(inv'[c].payload), id)) @@ @]
          ]_vars

C8_Witness ==
    \E c \in Callers :
        /\ Invoked(c, "create") /\ Returned(c)
        /\ inv[c].payload = CablePayload(None, "connected", NoneStr,
                                         <<CableTerminationPayload(10)>>,
                                         <<CableTerminationPayload(20)>>)
        /\ result[c].value = 2
        /\ result[c].value # inv[c].payload.id

\* C10 as stated: an invocation is a single external request, so one that
\* ends in an error, or an update whose save reports false, has modified
\* nothing in the external system.
C10_FailureLeavesStateUnchanged ==
    \A c \in Callers :
        /\ Len(calls[c]) <= 1
        /\ (Raised(c) \/ (Invoked(c, "update") /\ Returned(c)
                            /\ result[c].value = FALSE))
               => ~ModifiedBy(c)

\* C10, amended: a create is a single external request and modifies nothing
\* when it fails. An update issues up to three requests, one after the
\* other: get, the object's update, save. An update that ends before save is
\* called ends in an error and has modified nothing; once save has been
\* called the object's update has gone through with the payload's mapping,
\* whether save returns true, returns false or raises. A step changes the
\* external system only through a create or an object's update that went
\* through, and the object's update applies the mapping to the object.
C10_FailureBeforeSaveLeavesStateUnchanged ==
    /\ [](\A c \in Callers :
            /\ Invoked(c, "create") =>
                  /\ Len(calls[c]) <= 1
                  /\ Raised(c) => ~ModifiedBy(c)
            /\ Invoked(c, "update") =>
                  /\ Len(calls[c]) <= 3
                  /\ (result[c] # Pending /\ "save" \notin Methods(c)) =>
                        (Raised(c) /\ ~ModifiedBy(c))
                  /\ "save" \in Methods(c) =>
                        /\ calls[c][2].method = "update"
                        /\ ~calls[c][2].outcome.raises
                        /\ calls[c][2].data = dict(inv[c].payload))
    /\ [][\A c \in Callers :
            Acts(c) =>
                /\ ChangesOnlyByMutatingCall(c)
                /\ ObjectUpdateReturns(c) =>
                      store' = Patched(store, EndpointOf(inv[c].payload.cls),
                                       inv[c].payload.id, dict(inv[c].payload))
          ]_vars

\* An update whose save raised, after its object.update had made device 5
\* active.
C10_Witness ==
    \E c \in Callers :
        /\ Invoked(c, "update") /\ Raised(c)
        /\ Len(calls[c]) = 3 /\ calls[c][3].outcome.raises
        /\ inv[c].payload.id = 5
        /\ store.devices[5].status = "active"

\* A payload with no nested termination.
Flat(payload) ==
    \A f \in DataclassListFields(payload.cls) : payload[f] = <<>>

\* The payload with each termination mapping it holds made a
\* CableTerminationPayload again.
WithTerminationsRebuilt(payload) ==
    [f \in DOMAIN payload |->
        IF f \in DataclassListFields(payload.cls)
        THEN [i \in DOMAIN payload[f] |->
                 Reconstruct("CableTerminationPayload", payload[f][i])]
        ELSE payload[f]]

\* C9 as stated: the payload constructed from the mapping of a payload equals
\* that payload, for every payload class.
C9_RoundTripYieldsEqualPayload ==
    \A c \in Callers :
        inv[c].fn = "reconstruct" => result[c].value = inv[c].payload

\* C9, amended: the payload constructed from the mapping of a payload equals
\* that payload exactly when the payload holds no termination; a cable
\* payload with terminations comes back holding their mappings, and equals
\* the original once each of them is made a CableTerminationPayload again.
C9_RoundTripUpToTerminations ==
    \A c \in Callers :
        inv[c].fn = "reconstruct" =>
            /\ (result[c].value = inv[c].payload) <=> Flat(inv[c].payload)
            /\ result[c].value.cls = inv[c].payload.cls
            /\ WithTerminationsRebuilt(result[c].value) = inv[c].payload
            /\ calls[c][1].outcome.value = to_mapping(inv[c].payload)

C9_Witness ==
    \E c \in Callers :
        /\ inv[c].fn = "reconstruct"
        /\ inv[c].payload.cls = "CablePayload"
        /\ Len(inv[c].payload.a_terminations) = 2
        /\ result[c].value # inv[c].payload
        /\ result[c].value.a_terminations[1] =
              [object_id |-> 10, object_type |-> "dcim.interface"]

\* The step a completed step record stands for: its name, and for set_status
\* the lifecycle state it sets.
Label(step) ==
    IF "status" \in DOMAIN step THEN <<step.name, step.status>> ELSE <<step.name>>

IsPrefix(s, t) == Len(s) <= Len(t) /\ \A i \in DOMAIN s : s[i] = t[i]

CreateNodeOrder ==
    <<  <<"init">>,
        <<"construct_node_model">>,
        <<"store_process_subscription">>,
        <<"fetch_ip_address_information">>,
        <<"set_status", "PROVISIONING">>,
        <<"provide_config_to_user">>,
        <<"set_node_to_active">>,
        <<"update_node_in_netbox">>,
        <<"set_status", "ACTIVE">>,
        <<"resync">>,
        <<"done">>  >>

ExecutedLabels == [i \in DOMAIN wf.executed |-> Label(wf.executed[i])]

\* C11: in every run of the Create Node workflow the steps completed so far
\* are an initial part of init, construct_node_model,
\* store_process_subscription, fetch_ip_address_information,
\* set_status(PROVISIONING), provide_config_to_user, set_node_to_active,
\* update_node_in_netbox, set_status(ACTIVE), resync, done, and a completed
\* process has run them all; the lifecycle states the subscription has been
\* given are an initial part of INITIAL, PROVISIONING, ACTIVE; the workflow
\* has called netbox.update only after the operator submitted the config form
\* with confirm_config_put_on_routers ACCEPTED and provide_config_to_user
\* returned it, and while the last value the operator handed in is
\* INCOMPLETE the process waits at the config form with no netbox.update
\* called; and the subscription is ACTIVE only after update_node_in_netbox
\* has completed, the workflow's last call of netbox.update having returned.
C11_StepsRunInFixedOrder ==
    wf.process # "none" =>
        /\ IsPrefix(ExecutedLabels, CreateNodeOrder)
        /\ wf.process = "completed" => ExecutedLabels = CreateNodeOrder
        /\ IsPrefix(wf.lifecycle, <<"INITIAL", "PROVISIONING", "ACTIVE">>)
        /\ wf.lifecycle # <<>> =>
              wf.subscription.status = wf.lifecycle[Len(wf.lifecycle)]
        /\ inv[WorkflowCaller].fn = "update" =>
              /\ wf.submitted = "ACCEPTED"
              /\ wf.user_input.confirm_config_put_on_routers = "ACCEPTED"
              /\ \E i \in DOMAIN wf.executed :
                    wf.executed[i].name = "provide_config_to_user"
        /\ wf.submitted # "ACCEPTED" =>
              /\ inv[WorkflowCaller].fn # "update"
              /\ \A i \in DOMAIN wf.executed :
                    wf.executed[i].name # "provide_config_to_user"
        /\ wf.submitted = "INCOMPLETE" =>
              /\ wf.process = "suspended"
              /\ CreateNodeWorkflow[wf.pc].name = "provide_config_to_user"
        /\ wf.subscription.status = "ACTIVE" =>
              /\ \E i \in DOMAIN wf.executed :
                    wf.executed[i].name = "update_node_in_netbox"
              /\ inv[WorkflowCaller].fn = "update"
              /\ result[WorkflowCaller].kind = "return"
              /\ wf.netbox_updated = result[WorkflowCaller]

\* A process for device 5 has completed after the operator first handed in
\* the config form with INCOMPLETE, which was refused, and then with
\* ACCEPTED; its netbox.update returned false, and the other caller's update
\* of device 5 has returned too.
C11_Witness ==
    /\ wf.process = "completed"
    /\ Len(wf.executed) = 11
    /\ wf.lifecycle = <<"INITIAL", "PROVISIONING", "ACTIVE">>
    /\ wf.refused
    /\ wf.user_input.confirm_config_put_on_routers = "ACCEPTED"
    /\ result[WorkflowCaller].kind = "return"
    /\ result[WorkflowCaller].value = FALSE
    /\ inv[WorkflowCaller].payload.id = 5
    /\ result[OtherCaller].kind = "return"

====
